---- MODULE Spec2Model ----
(***************************************************************************)
(* InsightData (viochris/insight-data-ai-analyst): the Streamlit session   *)
(* state of src/app.py and src/function.py as a state machine.             *)
(*                                                                         *)
(* One user interaction is one callback (function.py) followed by one run  *)
(* of the script app.py from top to bottom.  The run is cut at the places  *)
(* where the script's sections begin (pc): init_state, section 6 (file     *)
(* processing), section 7 (LLM and memory), section 8 (agent), section 9   *)
(* (chat).  st.stop() ends the run at once.                                *)
(*                                                                         *)
(* Strings are sequences of tokens (a token is a run of characters that    *)
(* the code never looks inside), tables are matrices of cells with NaN for *)
(* an empty cell.                                                          *)
(***************************************************************************)
EXTENDS Integers, Sequences, FiniteSets, TLC

VARIABLES
    session_state,    \* st.session_state: key -> value, DOMAIN = the keys present
    chosen_language,  \* value of the language selectbox (app.py:58)
    pc,               \* position of the script run, "idle" between interactions
    event,            \* the widget that triggered the current run
    run,              \* locals of section 6 of the current run (widget values read, outcome)
    ui,               \* st.toast / st.warning / st.error elements emitted by the last section
    invoked           \* the agent handle the current run handed the question to

vars == <<session_state, chosen_language, pc, event, run, ui, invoked>>

----------------------------------------------------------------------------
(* Bounds of the model                                                     *)

MaxBatch == 2      \* files in one upload batch
MaxTables == 2     \* tables in final_df; a batch is explored while its new files fit
MaxMessages == 2   \* transcript entries; a question is explored while it and its answer fit
MaxTranscript == 3 \* in ChatSpec a question is explored while the transcript is shorter
MaxErrorTokens == 2 \* in ErrorSpec the text of an exception has at most this many tokens

----------------------------------------------------------------------------
(* Generic helpers                                                         *)

Range(s) == {s[i] : i \in 1..Len(s)}

\* Python's None, and the objects held in the session, are tagged records
None == [tag |-> "None"]

\* st.session_state.<k> = v
SetKey(s, k, v) == [x \in (DOMAIN s) \cup {k} |-> IF x = k THEN v ELSE s[x]]

\* st.session_state.pop(k, None)
Pop(s, k) == [x \in (DOMAIN s) \ {k} |-> s[x]]

----------------------------------------------------------------------------
(* Strings                                                                 *)

\* str.lower() on the tokens that have upper-case letters
Lower(tok) ==
    CASE tok = ".XLSX" -> ".xlsx"
      [] tok = ".CSV" -> ".csv"
      [] tok = "B" -> "b"
      [] tok = "Forbidden" -> "forbidden"
      [] tok = "Not Found" -> "not found"
      [] tok = "No columns" -> "no columns"
      [] tok = "Connection" -> "connection"
      [] tok = "Timed out" -> "timed out"
      [] OTHER -> tok

lower(s) == [i \in 1..Len(s) |-> Lower(s[i])]

\* tokens that begin with a dot and hold no further dot or separator
ExtTokens == {".csv", ".xlsx", ".txt", ".CSV", ".XLSX"}

\* os.path.splitext(s)[-1]
splitext(s) == IF Len(s) > 0 /\ s[Len(s)] \in ExtTokens THEN s[Len(s)] ELSE ""

\* s.endswith(tok) / s.startswith(tok) for a one-token pattern
endswith(s, tok) == Len(s) > 0 /\ s[Len(s)] = tok
startswith(s, tok) == Len(s) > 0 /\ s[1] = tok

\* tokens of the character class [a-zA-Z0-9-_]
IdTokens == {"x", "edit", "data", "page", "7"}
\* tokens of the character class [0-9]
DigitTokens == {"7"}

\* the longest run of tokens of class cls that starts at position i of s
RECURSIVE RunFrom(_, _, _)
RunFrom(s, i, cls) ==
    IF i <= Len(s) /\ s[i] \in cls THEN <<s[i]>> \o RunFrom(s, i + 1, cls) ELSE <<>>

\* re.search(lead + "(" + cls + "+)", s): the positions where the pattern matches
MatchPositions(s, lead, cls) ==
    {i \in 1..Len(s) : s[i] \in lead /\ i < Len(s) /\ s[i + 1] \in cls}

\* re.search(...).group(1) of the leftmost match
Group1(s, lead, cls) ==
    LET i == CHOOSE p \in MatchPositions(s, lead, cls) :
                 \A q \in MatchPositions(s, lead, cls) : p <= q
    IN RunFrom(s, i + 1, cls)

\* s.split("/")[-1]: what follows the last token that ends in a slash
SlashTokens == {"/d/", "/"}
LastSegment(s) ==
    LET cuts == {i \in 1..Len(s) : s[i] \in SlashTokens}
        last == IF cuts = {} THEN 0 ELSE CHOOSE i \in cuts : \A j \in cuts : j <= i
    IN SubSeq(s, last + 1, Len(s))

----------------------------------------------------------------------------
(* Tables (pandas DataFrames)                                              *)

NaN == 0

\* a DataFrame: shape (Len(rows), ncols); src and origin say where it was read from
DataFrame(src, origin, ncols, rows) ==
    [tag |-> "df", src |-> src, origin |-> origin, ncols |-> ncols, rows |-> rows]

\* df.empty: any axis of length 0
empty(df) == Len(df.rows) = 0 \/ df.ncols = 0

\* df.dropna(how="all", axis=0)
dropna_rows(df) ==
    [df EXCEPT !.rows = SelectSeq(df.rows, LAMBDA r : \E j \in 1..Len(r) : r[j] # NaN)]

\* the columns of df, in order, that hold a value in some row
RECURSIVE KeptCols(_, _)
KeptCols(df, j) ==
    IF j > df.ncols THEN <<>>
    ELSE (IF \E i \in 1..Len(df.rows) : df.rows[i][j] # NaN THEN <<j>> ELSE <<>>)
         \o KeptCols(df, j + 1)

\* df.dropna(how="all", axis=1)
dropna_cols(df) ==
    LET keep == KeptCols(df, 1)
    IN [df EXCEPT !.ncols = Len(keep),
                  !.rows = [i \in 1..Len(df.rows) |->
                               [k \in 1..Len(keep) |-> df.rows[i][keep[k]]]]]

\* df.duplicated().sum(): rows equal to an earlier row
duplicates_count(df) ==
    Cardinality({i \in 1..Len(df.rows) : \E k \in 1..(i - 1) : df.rows[k] = df.rows[i]})

\* a drop_duplicates that drops nothing
keep_duplicates(df) == df

\* df.drop_duplicates(): the first occurrence of every row is kept
RECURSIVE FirstOccurrences(_, _)
FirstOccurrences(rows, i) ==
    IF i > Len(rows) THEN <<>>
    ELSE (IF \E k \in 1..(i - 1) : rows[k] = rows[i] THEN <<>> ELSE <<rows[i]>>)
         \o FirstOccurrences(rows, i + 1)

drop_duplicates(df) == [df EXCEPT !.rows = FirstOccurrences(df.rows, 1)]

----------------------------------------------------------------------------
(* Inputs: what the user can upload or paste, and what pandas makes of it  *)

\* a raw payload that parses to a table of the given shape
Payload(ncols, rows) == [tag |-> "table", ncols |-> ncols, rows |-> rows]
\* a raw payload on which the pandas reader raises an exception with this text
Corrupt(text) == [tag |-> "raise", error |-> text]

\* an element of st.file_uploader's list: .name and the bytes behind it
UploadedFile(name, payload) == [name |-> name, payload |-> payload]

Uploads ==
    { UploadedFile(<<"a", ".csv">>, Payload(1, << <<1>>, <<2>> >>)),
      UploadedFile(<<"B", ".XLSX">>, Payload(1, << <<1>>, <<1>> >>)),
      UploadedFile(<<"c", ".csv">>, Payload(2, << <<1, NaN>>, <<NaN, NaN>> >>)),
      UploadedFile(<<"d", ".csv">>, Corrupt(<<"error ", "tokenizing", " data">>)),
      UploadedFile(<<"e", ".csv">>, Payload(1, << >>)),
      UploadedFile(<<"GSheet_", "x", ".csv">>, Payload(1, << <<2>> >>)) }

SheetLink == <<"https://h", "/d/", "x", "/", "edit">>

\* the values st.file_uploader can return: lists of up to MaxBatch files
RECURSIVE SeqsUpTo(_, _)
SeqsUpTo(S, n) ==
    IF n = 0 THEN {<<>>}
    ELSE LET shorter == SeqsUpTo(S, n - 1)
         IN shorter \cup {Append(b, f) : b \in shorter, f \in S}

Batches == SeqsUpTo(Uploads, MaxBatch)

\* what the two source widgets can hold when the local branch is taken: the
\* files, and the URL field empty or (with a single file) filled as well
LocalInputs ==
    {<<b, <<>>>> : b \in Batches \ {<<>>}}
    \cup {<<b, SheetLink>> : b \in SeqsUpTo(Uploads, 1) \ {<<>>}}

\* the values of the URL text input; <<>> is the empty field
Links ==
    { <<>>,
      SheetLink,
      <<"https://h", "/", "data", ".csv">>,
      <<"https://h", "/d/", "x", ".csv">>,
      <<"https://h", "/", "page">> }

\* what pd.read_csv(export_url) can come back with
Responses ==
    { Payload(2, << <<1, NaN>>, <<1, NaN>>, <<NaN, NaN>> >>),
      Payload(1, << <<NaN>> >>),
      Payload(1, << >>),
      Corrupt(<<"http error ", "403", ": ", "forbidden">>) }

\* pd.read_csv / pd.read_excel: the parsed DataFrame, or the exception raised
read_table(src, origin, payload) ==
    IF payload.tag = "raise" THEN payload
    ELSE DataFrame(src, origin, payload.ncols, payload.rows)

\* function.py read_files: a DataFrame, None, or the exception the reader raised
read_files(uploaded_file) ==
    LET filenames == lower(uploaded_file.name)
        ext == splitext(filenames)
    IN IF ext = ".csv" /\ endswith(filenames, ".csv")
       THEN read_table(uploaded_file.name, "local", uploaded_file.payload)
       ELSE IF ext = ".xlsx" /\ endswith(filenames, ".xlsx")
       THEN read_table(uploaded_file.name, "local", uploaded_file.payload)
       ELSE None

\* `marker in error_str` for error_str = str(e).lower()
Contains(error, marker) == marker \in Range(lower(error))

\* one element on the page: st.toast, st.warning or st.error
Element(kind, detail) == [kind |-> kind, detail |-> detail]
Shows(elements, kind) == \E i \in 1..Len(elements) : elements[i].kind = kind

----------------------------------------------------------------------------
(* Section 6, first branch: local files (app.py:262-388)                   *)

\* the names the script has bound when the loop body of the local branch runs;
\* virtual_filename is assigned only in the URL branch (app.py:407, 413)
LocalBranchNames ==
    {"uploaded_files", "upload_btn", "new_filenames", "files_to_process",
     "uploaded_file", "df", "initial_rows", "initial_cols", "cleaned_rows",
     "cleaned_cols"}

\* str(e) of the NameError Python raises for an unbound global
NameErrorText(name) == <<"name '", name, "' is not defined">>

\* the result of the loop over files_to_process
LoopState(outcome, final_df, new_filenames, elements, error) ==
    [outcome |-> outcome, final_df |-> final_df, new_filenames |-> new_filenames,
     elements |-> elements, error |-> error]

\* a loop that skips a file left without rows by the cleaning and goes on
RECURSIVE ProcessFilesSkipsNull(_, _, _, _, _)
ProcessFilesSkipsNull(files_to_process, i, final_df, new_filenames, elements) ==
    IF i > Len(files_to_process)
    THEN LoopState("done", final_df, new_filenames, elements, <<>>)
    ELSE
    LET uploaded_file == files_to_process[i]
        df == read_files(uploaded_file)
    IN
    IF df.tag = "raise"
    THEN LoopState("raise", final_df, new_filenames, elements, df.error)
    ELSE IF df.tag = "None" \/ empty(df) \/ empty(dropna_cols(dropna_rows(df)))
    THEN ProcessFilesSkipsNull(files_to_process, i + 1, final_df, new_filenames,
             Append(elements, Element("skipped_empty", uploaded_file.name)))
    ELSE
    LET cleaned == dropna_cols(dropna_rows(df))
    IN
    IF Len(df.rows) > Len(cleaned.rows) \/ df.ncols > cleaned.ncols
    THEN LoopState("raise", final_df, new_filenames, elements,
                   NameErrorText("virtual_filename"))
    ELSE ProcessFilesSkipsNull(files_to_process, i + 1,
             Append(final_df, IF duplicates_count(cleaned) > 0
                              THEN drop_duplicates(cleaned) ELSE cleaned),
             Append(new_filenames, uploaded_file.name), elements)

\* app.py:298-355, from file i on; final_df is appended to in place
RECURSIVE ProcessFiles(_, _, _, _, _)
ProcessFiles(files_to_process, i, final_df, new_filenames, elements) ==
    IF i > Len(files_to_process)
    THEN LoopState("done", final_df, new_filenames, elements, <<>>)
    ELSE
    LET uploaded_file == files_to_process[i]
        df == read_files(uploaded_file)
    IN
    IF df.tag = "raise"
    THEN LoopState("raise", final_df, new_filenames, elements, df.error)
    ELSE IF df.tag = "None"
    THEN ProcessFiles(files_to_process, i + 1, final_df, new_filenames,
             Append(elements, Element("skipped_unsupported", uploaded_file.name)))
    ELSE IF empty(df)
    THEN ProcessFiles(files_to_process, i + 1, final_df, new_filenames,
             Append(elements, Element("skipped_empty", uploaded_file.name)))
    ELSE
    LET cleaned == dropna_cols(dropna_rows(df))
        cleaned_rows == Len(df.rows) - Len(cleaned.rows)
        cleaned_cols == df.ncols - cleaned.ncols
        toasted == IF cleaned_rows > 0 \/ cleaned_cols > 0
                   THEN Append(elements, Element("cleaned", uploaded_file.name))
                   ELSE elements
    IN
    IF (cleaned_rows > 0 \/ cleaned_cols > 0) /\ "virtual_filename" \notin LocalBranchNames
    THEN LoopState("raise", final_df, new_filenames, elements,
                   NameErrorText("virtual_filename"))
    ELSE IF empty(cleaned)
    THEN LoopState("stop", final_df, new_filenames,
                   Append(toasted, Element("skipped_null", uploaded_file.name)), <<>>)
    ELSE
    LET deduped == IF duplicates_count(cleaned) > 0 THEN drop_duplicates(cleaned)
                   ELSE cleaned
        told == IF duplicates_count(cleaned) > 0
                THEN Append(toasted, Element("removed_duplicates", uploaded_file.name))
                ELSE toasted
    IN ProcessFiles(files_to_process, i + 1, Append(final_df, deduped),
                    Append(new_filenames, uploaded_file.name), told)

\* app.py:372-388: the st.error chosen for an exception of the local branch
LocalErrorElement(error) ==
    IF Contains(error, "unicodedecodeerror") \/ Contains(error, "utf-8")
    THEN Element("encoding_error", <<>>)
    ELSE IF Contains(error, "tokenizing") \/ Contains(error, "parser")
    THEN Element("format_error", <<>>)
    ELSE IF Contains(error, "memory") \/ Contains(error, "allocation")
    THEN Element("memory_error", <<>>)
    ELSE Element("processing_failed", error)

\* a flush that empties the transcript and the conversation memory as well
ModeSwitchClearsConversation(s) ==
    IF \E i \in 1..Len(s.processed_files) : startswith(s.processed_files[i], "GSheet_")
    THEN SetKey(SetKey(SetKey(SetKey(s, "final_df", <<>>), "processed_files", <<>>),
                       "messages", <<>>),
                "agent_memory", None)
    ELSE s

\* a flush that forgets the identifiers and keeps the tables
ModeSwitchKeepsTables(s) ==
    IF \E i \in 1..Len(s.processed_files) : startswith(s.processed_files[i], "GSheet_")
    THEN SetKey(s, "processed_files", <<>>)
    ELSE s

\* app.py:268-276: the hard flush when a tracked identifier starts with "GSheet_"
ModeSwitch(s) ==
    IF \E i \in 1..Len(s.processed_files) : startswith(s.processed_files[i], "GSheet_")
    THEN SetKey(SetKey(s, "final_df", <<>>), "processed_files", <<>>)
    ELSE s

\* app.py:288-290: the uploaded files whose name is not tracked yet
FilesToProcess(uploaded_files, processed_files) ==
    SelectSeq(uploaded_files, LAMBDA f : f.name \notin Range(processed_files))

\* what section 6 leaves behind: the session, the elements shown, how it ended
\* ("done", "raise": the script goes on with section 7; "stop": st.stop())
Section6(s, outcome, new_filenames, elements, export_url) ==
    [session_state |-> s, outcome |-> outcome, new_filenames |-> new_filenames,
     elements |-> elements, export_url |-> export_url]

\* app.py:262-388 on the files the uploader holds
LocalIngestion(s, uploaded_files) ==
    LET flushed == ModeSwitch(s)
        switched == IF flushed # s THEN <<Element("mode_switched", <<>>)>> ELSE <<>>
        files_to_process == FilesToProcess(uploaded_files, flushed.processed_files)
        loop == ProcessFiles(files_to_process, 1, flushed.final_df, <<>>, switched)
        appended == SetKey(flushed, "final_df", loop.final_df)
    IN
    IF files_to_process = <<>>
    THEN Section6(flushed, "done", <<>>,
                  Append(switched, Element("already_known", <<>>)), <<>>)
    ELSE IF loop.outcome = "raise"
    THEN Section6(appended, "raise", loop.new_filenames,
                  Append(loop.elements, LocalErrorElement(loop.error)), <<>>)
    ELSE IF loop.outcome = "stop"
    THEN Section6(appended, "stop", loop.new_filenames, loop.elements, <<>>)
    ELSE Section6(
             Pop(SetKey(appended, "processed_files",
                        flushed.processed_files \o loop.new_filenames),
                 "agent_executor"),
             "done", loop.new_filenames,
             IF loop.new_filenames # <<>>
             THEN Append(loop.elements, Element("loaded", <<>>))
             ELSE loop.elements,
             <<>>)

----------------------------------------------------------------------------
(* Section 6, second branch: a URL (app.py:390-539)                        *)

\* re.search(r"/d/([a-zA-Z0-9-_]+)", uploaded_link) found a match
match_id(uploaded_link) == MatchPositions(uploaded_link, {"/d/"}, IdTokens) # {}

\* re.search(r"[?#]gid=([0-9]+)", uploaded_link) found a match
match_gid(uploaded_link) ==
    MatchPositions(uploaded_link, {"?gid=", "#gid="}, DigitTokens) # {}

\* app.py:399-434: the identifier given to the import
virtual_filename(uploaded_link) ==
    IF endswith(uploaded_link, ".csv")
    THEN <<"GSheet_">> \o LastSegment(uploaded_link)
    ELSE <<"GSheet_">> \o Group1(uploaded_link, {"/d/"}, IdTokens)

\* app.py:403, 417-434: the address that is fetched
export_url(uploaded_link) ==
    IF endswith(uploaded_link, ".csv")
    THEN uploaded_link
    ELSE <<"https://docs.google.com/spreadsheets/d/">>
         \o Group1(uploaded_link, {"/d/"}, IdTokens)
         \o <<"/export?", "format=csv">>
         \o (IF match_gid(uploaded_link)
             THEN <<"&gid=">> \o Group1(uploaded_link, {"?gid=", "#gid="}, DigitTokens)
             ELSE <<>>)

\* a classification that looks for "not found" before "access denied"
UrlErrorElementNotFoundFirst(error) ==
    IF Contains(error, "404") \/ Contains(error, "not found")
    THEN Element("sheet_not_found", <<>>)
    ELSE IF Contains(error, "403") \/ Contains(error, "forbidden")
    THEN Element("access_denied", <<>>)
    ELSE IF Contains(error, "parsererror") \/ Contains(error, "no columns")
    THEN Element("format_error", <<>>)
    ELSE IF Contains(error, "name resolution") \/ Contains(error, "connection")
    THEN Element("connection_error", <<>>)
    ELSE Element("import_failed", error)

\* app.py:515-539: the st.error chosen for an exception of the URL branch
UrlErrorElement(error) ==
    IF Contains(error, "403") \/ Contains(error, "forbidden")
    THEN Element("access_denied", <<>>)
    ELSE IF Contains(error, "404") \/ Contains(error, "not found")
    THEN Element("sheet_not_found", <<>>)
    ELSE IF Contains(error, "parsererror") \/ Contains(error, "no columns")
    THEN Element("format_error", <<>>)
    ELSE IF Contains(error, "name resolution") \/ Contains(error, "connection")
    THEN Element("connection_error", <<>>)
    ELSE Element("import_failed", error)

\* an import that appends to what is loaded, as the local branch does
OverwriteAppends(s, df, name) ==
    Pop(SetKey(SetKey(s, "final_df", Append(s.final_df, df)),
               "processed_files", Append(s.processed_files, name)),
        "agent_executor")

\* app.py:498-506: single source enforcement
Overwrite(s, df, name) ==
    Pop(SetKey(SetKey(s, "final_df", <<df>>), "processed_files", <<name>>),
        "agent_executor")

\* a failed import that drops the agent all the same
UrlFailureDropsAgent(s, outcome, elements, fetched) ==
    Section6(Pop(s, "agent_executor"), outcome, <<>>, elements, fetched)

\* app.py:442, 447, 477 (st.stop()) and 511-539 (except): the import is given up
\* before anything was stored
UrlFailure(s, outcome, elements, fetched) ==
    Section6(s, outcome, <<>>, elements, fetched)

\* app.py:399-539 for a link that passed the check of line 395; response is what
\* pd.read_csv(export_url) comes back with
UrlImport(s, uploaded_link, response) ==
    LET name == virtual_filename(uploaded_link)
        fetched == export_url(uploaded_link)
        detected == IF endswith(uploaded_link, ".csv")
                    THEN <<Element("direct_csv", <<>>)>>
                    ELSE <<Element("connecting", <<>>),
                           IF match_gid(uploaded_link)
                           THEN Element("tab_detected", <<>>)
                           ELSE Element("default_tab", <<>>)>>
        df == read_table(name, "url", response)
    IN
    IF df.tag = "raise"
    THEN UrlFailure(s, "raise", Append(detected, UrlErrorElement(df.error)), fetched)
    ELSE IF empty(df)
    THEN UrlFailure(s, "stop", Append(detected, Element("skipped_empty", name)), fetched)
    ELSE
    LET cleaned == dropna_cols(dropna_rows(df))
        cleaned_rows == Len(df.rows) - Len(cleaned.rows)
        cleaned_cols == df.ncols - cleaned.ncols
        toasted == IF cleaned_rows > 0 \/ cleaned_cols > 0
                   THEN Append(detected, Element("cleaned", name))
                   ELSE detected
    IN
    IF empty(cleaned)
    THEN UrlFailure(s, "stop", Append(toasted, Element("skipped_null", name)), fetched)
    ELSE
    LET deduped == IF duplicates_count(cleaned) > 0 THEN drop_duplicates(cleaned)
                   ELSE cleaned
        told == IF duplicates_count(cleaned) > 0
                THEN Append(toasted, Element("removed_duplicates", name))
                ELSE toasted
    IN Section6(Overwrite(s, deduped, name), "done", <<>>,
                Append(told, Element("imported", <<>>)), fetched)

\* a URL branch that empties the session before it looks at the link
UrlIngestionClearsFirst(s, uploaded_link, response) ==
    IF ~match_id(uploaded_link) /\ ~endswith(uploaded_link, ".csv")
    THEN Section6(SetKey(SetKey(s, "final_df", <<>>), "processed_files", <<>>),
                  "stop", <<>>, <<Element("invalid_url", <<>>)>>, <<>>)
    ELSE UrlImport(s, uploaded_link, response)

\* app.py:390-398, then the import
UrlIngestion(s, uploaded_link, response) ==
    IF ~match_id(uploaded_link) /\ ~endswith(uploaded_link, ".csv")
    THEN Section6(s, "stop", <<>>, <<Element("invalid_url", <<>>)>>, <<>>)
    ELSE UrlImport(s, uploaded_link, response)

----------------------------------------------------------------------------
(* Callbacks and sections 7-9                                              *)

\* an initialisation that empties the transcript whether it exists or not
init_state_resets_messages(s) ==
    LET s1 == SetKey(s, "messages", <<>>)
        s2 == IF "processed_files" \notin DOMAIN s1
              THEN SetKey(s1, "processed_files", <<>>) ELSE s1
        s3 == IF "final_df" \notin DOMAIN s2 THEN SetKey(s2, "final_df", <<>>) ELSE s2
        s4 == IF "llm" \notin DOMAIN s3 THEN SetKey(s3, "llm", None) ELSE s3
    IN IF "agent_memory" \notin DOMAIN s4 THEN SetKey(s4, "agent_memory", None) ELSE s4

\* function.py:5-30
init_state(s) ==
    LET s1 == IF "messages" \notin DOMAIN s THEN SetKey(s, "messages", <<>>) ELSE s
        s2 == IF "processed_files" \notin DOMAIN s1
              THEN SetKey(s1, "processed_files", <<>>) ELSE s1
        s3 == IF "final_df" \notin DOMAIN s2 THEN SetKey(s2, "final_df", <<>>) ELSE s2
        s4 == IF "llm" \notin DOMAIN s3 THEN SetKey(s3, "llm", None) ELSE s3
    IN IF "agent_memory" \notin DOMAIN s4 THEN SetKey(s4, "agent_memory", None) ELSE s4

\* a Clear Conversation that forgets the conversation memory as well
reset_conversation_clears_memory(s) ==
    SetKey(SetKey(s, "messages", <<>>), "agent_memory", None)

\* function.py:32-39
reset_conversation(s) == SetKey(s, "messages", <<>>)

\* a reset that leaves the Language-Model Handle in place
reset_state_keeps_llm(s) ==
    Pop(SetKey(SetKey(SetKey(SetKey(s,
        "messages", <<>>),
        "processed_files", <<>>),
        "final_df", <<>>),
        "agent_memory", None),
        "agent_executor")

\* function.py:41-58
reset_state(s) ==
    Pop(SetKey(SetKey(SetKey(SetKey(SetKey(s,
        "messages", <<>>),
        "processed_files", <<>>),
        "final_df", <<>>),
        "agent_memory", None),
        "llm", None),
        "agent_executor")

\* a credential change that keeps the Language-Model Handle
change_on_api_key_keeps_llm(s) ==
    Pop(SetKey(SetKey(SetKey(SetKey(s,
        "messages", <<>>),
        "processed_files", <<>>),
        "final_df", <<>>),
        "agent_memory", None),
        "agent_executor")

\* a credential change that keeps the loaded tables
change_on_api_key_keeps_tables(s) ==
    Pop(SetKey(SetKey(SetKey(s,
        "messages", <<>>),
        "agent_memory", None),
        "llm", None),
        "agent_executor")

\* function.py:60-75
change_on_api_key(s) ==
    Pop(SetKey(SetKey(SetKey(SetKey(SetKey(s,
        "messages", <<>>),
        "processed_files", <<>>),
        "final_df", <<>>),
        "agent_memory", None),
        "llm", None),
        "agent_executor")

\* a language change that clears the transcript as well
change_on_lan_clears_messages(s) == Pop(SetKey(s, "messages", <<>>), "agent_executor")

\* function.py:77-90
change_on_lan(s) == Pop(s, "agent_executor")

\* the objects the session holds
LLM(key) == [tag |-> "llm", key |-> key]
\* ConversationBufferMemory; saved: an exchange has been saved in the buffer
Memory(saved) == [tag |-> "memory", saved |-> saved]
Agent(llm, df, language) == [tag |-> "agent", llm |-> llm, df |-> df, language |-> language]

\* an initialization that does not look at the credential
LlmInitializationWithoutKey(s, created) ==
    IF s.llm = None
    THEN IF created THEN SetKey(s, "llm", LLM(s.google_api_key)) ELSE SetKey(s, "llm", None)
    ELSE s

\* app.py:553-606; created says whether ChatGoogleGenerativeAI(...) returned
LlmInitialization(s, created) ==
    IF s.google_api_key # ""
    THEN IF s.llm = None
         THEN IF created THEN SetKey(s, "llm", LLM(s.google_api_key))
              ELSE SetKey(s, "llm", None)
         ELSE s
    ELSE s

LlmElements(s, created) ==
    IF s.google_api_key # ""
    THEN IF s.llm = None
         THEN IF created THEN <<Element("engine_online", <<>>)>>
              ELSE <<Element("initialization_failed", <<>>)>>
         ELSE <<>>
    ELSE <<Element("api_key_missing", <<>>)>>

\* app.py:611-615
MemoryInitialization(s) ==
    IF s.agent_memory = None THEN SetKey(s, "agent_memory", Memory(FALSE)) ELSE s

\* a section 8 that never builds the agent
AgentInitializationSkipped(s, language) == s

\* app.py:623-714; create_pandas_dataframe_agent raises when llm is None
AgentInitialization(s, language) ==
    IF "agent_executor" \notin DOMAIN s /\ s.final_df # <<>>
    THEN IF s.llm = None THEN s
         ELSE SetKey(s, "agent_executor", Agent(s.llm, s.final_df, language))
    ELSE s

AgentElements(s) ==
    IF "agent_executor" \notin DOMAIN s /\ s.final_df # <<>> /\ s.llm = None
    THEN <<Element("ai_engine_error", <<>>)>>
    ELSE <<>>


\* what the agent can come back with: an answer, an answer with a plot, an exception
Answers ==
    { [tag |-> "answer", output |-> "text", plot |-> FALSE],
      [tag |-> "answer", output |-> "text", plot |-> TRUE],
      [tag |-> "raise", error |-> <<"429", " quota exceeded">>] }

Prompts == {"question"}

\* app.py:829-853: the st.error chosen for an exception of the chat
ChatErrorElement(error) ==
    IF Contains(error, "429") \/ Contains(error, "quota")
       \/ Contains(error, "resource exhausted")
    THEN Element("quota_exceeded", <<>>)
    ELSE IF Contains(error, "api_key") \/ Contains(error, "403")
            \/ Contains(error, "permission denied")
    THEN Element("authentication_failed", <<>>)
    ELSE IF Contains(error, "not found") \/ Contains(error, "404")
    THEN Element("model_error", <<>>)
    ELSE IF Contains(error, "parsing") \/ Contains(error, "output parser")
    THEN Element("parsing_error", <<>>)
    ELSE IF Contains(error, "nameerror") \/ Contains(error, "syntaxerror")
            \/ Contains(error, "keyerror")
    THEN Element("code_execution_error", error)
    ELSE Element("unexpected_error", error)

\* str(e) of the AttributeError st.session_state raises for a missing key
AttributeErrorText(key) == <<"st.session_state has no attribute \"", key, "\"">>

\* a chat that stores the answer without the question
ChatAnswerOnly(s, prompt_text, answer) ==
    IF s.final_df = <<>> \/ "agent_executor" \notin DOMAIN s \/ answer.tag = "raise"
    THEN s
    ELSE SetKey(s, "messages", Append(s.messages, [role |-> "ai", content |-> answer.output]))

\* a chat that drops the agent when the call fails
ChatFailureDropsAgent(s, prompt_text, answer) ==
    IF s.final_df = <<>> THEN s
    ELSE IF "agent_executor" \notin DOMAIN s \/ answer.tag = "raise"
    THEN Pop(SetKey(s, "messages",
                    Append(s.messages, [role |-> "human", content |-> prompt_text])),
             "agent_executor")
    ELSE s

\* a chat that records the question also when no table is loaded
ChatWithoutData(s, prompt_text, answer) ==
    SetKey(s, "messages", Append(s.messages, [role |-> "human", content |-> prompt_text]))

\* app.py:746-823, the session after the question; the memory is the one the
\* executor was given and saves the exchange when the call returns
Chat(s, prompt_text, answer) ==
    IF s.final_df = <<>> THEN s
    ELSE
    LET asked == SetKey(s, "messages",
                        Append(s.messages, [role |-> "human", content |-> prompt_text]))
    IN
    IF "agent_executor" \notin DOMAIN s \/ answer.tag = "raise" THEN asked
    ELSE SetKey(SetKey(asked, "agent_memory", Memory(TRUE)),
                "messages",
                Append(asked.messages,
                       IF answer.plot
                       THEN [role |-> "ai", content |-> answer.output, image |-> "png"]
                       ELSE [role |-> "ai", content |-> answer.output]))

ChatElements(s, answer) ==
    IF s.final_df = <<>> THEN <<Element("no_data", <<>>)>>
    ELSE IF "agent_executor" \notin DOMAIN s
    THEN <<ChatErrorElement(AttributeErrorText("agent_executor"))>>
    ELSE IF answer.tag = "raise" THEN <<ChatErrorElement(answer.error)>>
    ELSE <<>>

\* app.py:765: the executor that is called, None when the call is not reached
Invoked(s) ==
    IF s.final_df # <<>> /\ "agent_executor" \in DOMAIN s THEN s.agent_executor ELSE None

----------------------------------------------------------------------------
(* The state machine                                                       *)

Keys == {"", "key1"}
Languages == {"English", "Indonesian"}

NoRun ==
    [uploaded_files |-> <<>>, uploaded_link |-> <<>>, response |-> None,
     outcome |-> "none", new_filenames |-> <<>>, export_url |-> <<>>]

\* a new browser session: nothing stored but the empty API key field
Init ==
    /\ session_state = [google_api_key |-> ""]
    /\ chosen_language = "English"
    /\ pc = "init_state"
    /\ event = "load"
    /\ run = NoRun
    /\ ui = <<>>
    /\ invoked = None

\* an interaction starts a new run of the script
Trigger(widget) ==
    /\ pc = "idle"
    /\ pc' = "init_state"
    /\ event' = widget
    /\ UNCHANGED <<run, ui, invoked>>

\* app.py:46-52: the API key field is edited
ApiKeyChanged ==
    \E key \in Keys \ {session_state.google_api_key} :
        /\ Trigger("google_api_key")
        /\ session_state' = change_on_api_key(SetKey(session_state, "google_api_key", key))
        /\ UNCHANGED chosen_language

\* app.py:58-64: another language is selected
LanguageChanged ==
    \E language \in Languages \ {chosen_language} :
        /\ Trigger("chosen_language")
        /\ chosen_language' = language
        /\ session_state' = change_on_lan(session_state)

\* app.py:76-81
ClearConversation ==
    /\ Trigger("clear_conversation")
    /\ session_state' = reset_conversation(session_state)
    /\ UNCHANGED chosen_language

\* app.py:86-92
HardReset ==
    /\ Trigger("hard_reset")
    /\ session_state' = reset_state(session_state)
    /\ UNCHANGED chosen_language

\* app.py:144-149: "Initialize & Analyze" is clicked
Confirm ==
    /\ Trigger("upload_btn")
    /\ UNCHANGED <<session_state, chosen_language>>

\* app.py:746: a question is submitted
ChatInput ==
    /\ Trigger("chat_input")
    /\ Len(session_state.messages) + 2 <= MaxMessages
    /\ UNCHANGED <<session_state, chosen_language>>

\* app.py:16
InitState ==
    /\ pc = "init_state"
    /\ session_state' = init_state(session_state)
    /\ pc' = "section6"
    /\ UNCHANGED <<chosen_language, event, run, ui, invoked>>

\* response: what pd.read_csv(export_url) came back with, None when nothing was fetched
Section6Step(result, uploaded_files, uploaded_link, response) ==
    /\ session_state' = result.session_state
    /\ ui' = result.elements
    /\ run' = [uploaded_files |-> uploaded_files, uploaded_link |-> uploaded_link,
               response |-> IF result.export_url = <<>> THEN None ELSE response,
               outcome |-> result.outcome, new_filenames |-> result.new_filenames,
               export_url |-> result.export_url]
    /\ pc' = IF result.outcome = "stop" THEN "stopped" ELSE "section7"
    /\ UNCHANGED <<chosen_language, event, invoked>>

\* the tables of the session and the new files of the batch are at most MaxTables
Fits(s, uploaded_files) ==
    Len(ModeSwitch(s).final_df)
    + Len(FilesToProcess(uploaded_files, ModeSwitch(s).processed_files)) <= MaxTables

\* a section 6 that imports the link when files and a link are both present
LocalBranchImportsLink ==
    /\ pc = "section6"
    /\ event = "upload_btn"
    /\ \E input \in LocalInputs, response \in Responses :
          /\ Fits(session_state, input[1])
          /\ IF input[2] # <<>>
             THEN Section6Step(UrlIngestion(session_state, input[2], response),
                               input[1], input[2], response)
             ELSE Section6Step(LocalIngestion(session_state, input[1]),
                               input[1], input[2], None)

\* app.py:262: files are in the uploader and the button was clicked
LocalBranch ==
    /\ pc = "section6"
    /\ event = "upload_btn"
    /\ \E input \in LocalInputs :
          /\ Fits(session_state, input[1])
          /\ Section6Step(LocalIngestion(session_state, input[1]), input[1], input[2], None)

\* app.py:390: no file, a link in the field, and the button was clicked
UrlBranch ==
    /\ pc = "section6"
    /\ event = "upload_btn"
    /\ \E uploaded_link \in Links \ {<<>>}, response \in Responses :
          Section6Step(UrlIngestion(session_state, uploaded_link, response),
                       <<>>, uploaded_link, response)

\* the button was not clicked in this run
NoIngestion ==
    /\ pc = "section6"
    /\ event # "upload_btn"
    /\ pc' = "section7"
    /\ UNCHANGED <<session_state, chosen_language, event, run, ui, invoked>>

\* app.py:553-615
Section7 ==
    /\ pc = "section7"
    /\ \E created \in BOOLEAN :
          /\ session_state' = MemoryInitialization(LlmInitialization(session_state, created))
          /\ ui' = LlmElements(session_state, created)
    /\ run' = NoRun
    /\ pc' = "section8"
    /\ UNCHANGED <<chosen_language, event, invoked>>

\* app.py:623-714
Section8 ==
    /\ pc = "section8"
    /\ session_state' = AgentInitialization(session_state, chosen_language)
    /\ ui' = AgentElements(session_state)
    /\ pc' = "section9"
    /\ UNCHANGED <<chosen_language, event, run, invoked>>

\* app.py:746-853
Section9Chat ==
    /\ pc = "section9"
    /\ event = "chat_input"
    /\ \E prompt_text \in Prompts, answer \in Answers :
          /\ session_state' = Chat(session_state, prompt_text, answer)
          /\ ui' = ChatElements(session_state, answer)
    /\ invoked' = Invoked(session_state)
    /\ pc' = "done"
    /\ UNCHANGED <<chosen_language, event, run>>

\* st.chat_input returned nothing
NoChat ==
    /\ pc = "section9"
    /\ event # "chat_input"
    /\ pc' = "done"
    /\ ui' = <<>>
    /\ UNCHANGED <<session_state, chosen_language, event, run, invoked>>

\* the run is over (end of script or st.stop()); the page waits for the user
EndRun ==
    /\ pc \in {"done", "stopped"}
    /\ pc' = "idle"
    /\ event' = "none"
    /\ run' = NoRun
    /\ ui' = <<>>
    /\ invoked' = None
    /\ UNCHANGED <<session_state, chosen_language>>

Next ==
    \/ ApiKeyChanged
    \/ LanguageChanged
    \/ ClearConversation
    \/ HardReset
    \/ Confirm
    \/ ChatInput
    \/ InitState
    \/ LocalBranch
    \/ UrlBranch
    \/ NoIngestion
    \/ Section7
    \/ Section8
    \/ Section9Chat
    \/ NoChat
    \/ EndRun

Spec == Init /\ [][Next]_vars

----------------------------------------------------------------------------
(* The local branch alone, on more kinds of files                          *)

\* the files of Uploads, and one that holds nothing but empty cells
MoreUploads ==
    Uploads \cup {UploadedFile(<<"n", ".csv">>, Payload(2, << <<NaN, NaN>>, <<NaN, NaN>> >>))}

\* app.py:262 with the uploader holding files of MoreUploads and no link
LocalBranchMore ==
    /\ pc = "section6"
    /\ event = "upload_btn"
    /\ \E uploaded_files \in SeqsUpTo(MoreUploads, MaxBatch) \ {<<>>} :
          /\ Fits(session_state, uploaded_files)
          /\ Section6Step(LocalIngestion(session_state, uploaded_files),
                          uploaded_files, <<>>, None)

\* a session in which files are uploaded and confirmed and nothing else is done
LocalNext ==
    \/ Confirm
    \/ InitState
    \/ LocalBranchMore
    \/ NoIngestion
    \/ Section7
    \/ Section8
    \/ NoChat
    \/ EndRun

LocalSpec == Init /\ [][LocalNext]_vars

----------------------------------------------------------------------------
(* The URL branch alone, on imports that fail                              *)

\* pieces of str(e) for the exceptions pd.read_csv(export_url) raises
ErrorTokens ==
    {"403", "Forbidden", "404", "Not Found", "parsererror", "No columns",
     "name resolution", "Connection", "Timed out"}

ErrorTexts == SeqsUpTo(ErrorTokens, MaxErrorTokens)

\* app.py:390 with a link in the field and a read that raises
UrlBranchErrors ==
    /\ pc = "section6"
    /\ event = "upload_btn"
    /\ \E uploaded_link \in Links \ {<<>>}, error \in ErrorTexts :
          Section6Step(UrlIngestion(session_state, uploaded_link, Corrupt(error)),
                       <<>>, uploaded_link, Corrupt(error))

\* a session in which links are confirmed and every read fails
ErrorNext ==
    \/ Confirm
    \/ InitState
    \/ UrlBranchErrors
    \/ NoIngestion
    \/ Section7
    \/ Section8
    \/ NoChat
    \/ EndRun

ErrorSpec == Init /\ [][ErrorNext]_vars

----------------------------------------------------------------------------
(* Longer conversations over files uploaded one at a time                  *)

\* app.py:746: a question is submitted; explored while the transcript is short
ChatInputMore ==
    /\ Trigger("chat_input")
    /\ Len(session_state.messages) < MaxTranscript
    /\ UNCHANGED <<session_state, chosen_language>>

\* app.py:262 with one file in the uploader and no link
LocalBranchOne ==
    /\ pc = "section6"
    /\ event = "upload_btn"
    /\ \E file \in Uploads :
          /\ Fits(session_state, <<file>>)
          /\ Section6Step(LocalIngestion(session_state, <<file>>), <<file>>, <<>>, None)

\* a session in which the key is set, files are confirmed and questions are asked
ChatNext ==
    \/ ApiKeyChanged
    \/ Confirm
    \/ ChatInputMore
    \/ InitState
    \/ LocalBranchOne
    \/ NoIngestion
    \/ Section7
    \/ Section8
    \/ Section9Chat
    \/ NoChat
    \/ EndRun

ChatSpec == Init /\ [][ChatNext]_vars

----------------------------------------------------------------------------
(* Vocabulary of the claims                                                *)

\* the first run has executed init_state
Ready == "final_df" \in DOMAIN session_state

\* the Agent Handle, None when the session holds none
AgentOf(s) == IF "agent_executor" \in DOMAIN s THEN s.agent_executor ELSE None

\* number of tables of the list that were read from the source called name
Count(final_df, name) ==
    Cardinality({i \in 1..Len(final_df) : final_df[i].src = name})

\* the step is section 6 taking the local branch / the URL branch
LocalStep == pc = "section6" /\ run'.uploaded_files # <<>>
UrlStep == pc = "section6" /\ run'.uploaded_files = <<>> /\ run'.uploaded_link # <<>>

\* the state follows section 6 taking the local branch / the URL branch
AfterLocal == pc \in {"section7", "stopped"} /\ run.uploaded_files # <<>>
AfterUrl ==
    pc \in {"section7", "stopped"} /\ run.uploaded_files = <<>> /\ run.uploaded_link # <<>>

HasMarker(processed_files) ==
    \E i \in 1..Len(processed_files) : startswith(processed_files[i], "GSheet_")

\* the table the pipeline stores for a file it accepts
Accepted(uploaded_file) ==
    LET cleaned == dropna_cols(dropna_rows(read_files(uploaded_file)))
    IN IF duplicates_count(cleaned) > 0 THEN drop_duplicates(cleaned) ELSE cleaned

\* row i / column j of the table holds no value at all
EmptyRow(df, i) == \A j \in 1..df.ncols : df.rows[i][j] = NaN
EmptyCol(df, j) == \A i \in 1..Len(df.rows) : df.rows[i][j] = NaN

\* what the reader returned is a table that has rows before and after cleaning
Valid(df) ==
    /\ df.tag = "df"
    /\ ~empty(df)
    /\ \E i \in 1..Len(df.rows) : ~EmptyRow(df, i)

\* what the reader returned is skipped by validation 1 or 2
Skipped(df) == df.tag = "None" \/ (df.tag = "df" /\ empty(df))

\* the table has a fully-empty row or column and still has rows after cleaning
Ghosted(df) ==
    /\ Valid(df)
    /\ \/ \E i \in 1..Len(df.rows) : EmptyRow(df, i)
       \/ \E j \in 1..df.ncols : EmptyCol(df, j)

\* stored comes from df by removing exactly its fully-empty rows and columns,
\* and then the repeated rows
CleanedFrom(stored, df) ==
    LET cleaned == dropna_cols(dropna_rows(df))
    IN /\ Len(df.rows) - Len(cleaned.rows)
             = Cardinality({i \in 1..Len(df.rows) : EmptyRow(df, i)})
       /\ df.ncols - cleaned.ncols = Cardinality({j \in 1..df.ncols : EmptyCol(df, j)})
       /\ \A i \in 1..Len(cleaned.rows) : \E j \in 1..cleaned.ncols : cleaned.rows[i][j] # NaN
       /\ \A j \in 1..cleaned.ncols : \E i \in 1..Len(cleaned.rows) : cleaned.rows[i][j] # NaN
       /\ stored = (IF duplicates_count(cleaned) > 0 THEN drop_duplicates(cleaned)
                    ELSE cleaned)

\* the step stored the table of the source called name and tracks the name
Stored(name) ==
    /\ name \in Range(session_state'.processed_files)
    /\ Count(session_state'.final_df, name) > 0

\* at least one row, no fully-empty row or column, no two identical rows
WellFormed(df) ==
    /\ Len(df.rows) >= 1
    /\ \A i \in 1..Len(df.rows) : ~EmptyRow(df, i)
    /\ \A j \in 1..df.ncols : ~EmptyCol(df, j)
    /\ \A i, k \in 1..Len(df.rows) : i # k => df.rows[i] # df.rows[k]

\* the export endpoint of the sheet whose ID the link holds, and its identifier
SheetExport(uploaded_link) ==
    <<"https://docs.google.com/spreadsheets/d/">>
    \o Group1(uploaded_link, {"/d/"}, IdTokens)
    \o <<"/export?", "format=csv">>
    \o (IF match_gid(uploaded_link)
        THEN <<"&gid=">> \o Group1(uploaded_link, {"?gid=", "#gid="}, DigitTokens)
        ELSE <<>>)
SheetIdentifier(uploaded_link) == <<"GSheet_">> \o Group1(uploaded_link, {"/d/"}, IdTokens)

\* final_df is the beginning of longer
Prefix(final_df, longer) ==
    /\ Len(final_df) <= Len(longer)
    /\ \A i \in 1..Len(final_df) : longer[i] = final_df[i]

\* the session as it would be with a credential and its Language-Model Handle
WithCredential(s) == SetKey(SetKey(s, "google_api_key", "key1"), "llm", LLM("key1"))

\* what the reader returned is a table with rows and no value in any cell
NullAfterCleaning(df) ==
    /\ df.tag = "df"
    /\ ~empty(df)
    /\ \A i \in 1..Len(df.rows) : EmptyRow(df, i)

\* the step stored no table for the source called name and did not start tracking it
NotAdded(name) ==
    /\ Count(session_state'.final_df, name) <= Count(session_state.final_df, name)
    /\ name \in Range(session_state'.processed_files)
       => name \in Range(session_state.processed_files)

----------------------------------------------------------------------------
(* Claims                                                                  *)

\* C1: in every session state the Working Table Set and the tracked identifiers
\* have the same length and the identifier at position i names the source of
\* the table at position i.
C1_TablesPairedWithIdentifiers ==
    Ready =>
        /\ Len(session_state.final_df) = Len(session_state.processed_files)
        /\ \A i \in 1..Len(session_state.final_df) :
              session_state.final_df[i].src = session_state.processed_files[i]

\* C2: an agent that is handed a question was built from the current Working
\* Table Set, the current language and the current Language-Model Handle.
C2_InvokedAgentIsCurrent ==
    invoked # None =>
        invoked = Agent(session_state.llm, session_state.final_df, chosen_language)

\* C3: after a local batch from which a file was accepted into the Working
\* Table Set, and after a successful URL import, the session holds no Agent
\* Handle (the one that existed before has been removed).
C3_IngestionRemovesAgent ==
    (\/ AfterLocal /\ run.new_filenames # <<>>
     \/ AfterUrl /\ run.outcome = "done")
    => "agent_executor" \notin DOMAIN session_state

\* C4: a confirmed local batch all of whose files are already tracked is
\* reported as already known and leaves the Working Table Set, the tracked
\* identifiers and the Agent Handle unchanged.
C4_KnownBatchIsNoOp ==
    [][(/\ LocalStep
        /\ \A i \in 1..Len(run'.uploaded_files) :
              run'.uploaded_files[i].name \in Range(session_state.processed_files))
       => /\ Shows(ui', "already_known")
          /\ session_state'.final_df = session_state.final_df
          /\ session_state'.processed_files = session_state.processed_files
          /\ AgentOf(session_state') = AgentOf(session_state)]_vars

\* C5: a confirmed batch never reads again a file that was already added: a
\* file of the batch that has a table in the Working Table Set gets no further
\* table.
C5_NoFileReadTwice ==
    [][LocalStep =>
          \A i \in 1..Len(run'.uploaded_files) :
              LET name == run'.uploaded_files[i].name
              IN Count(session_state.final_df, name) > 0
                 => Count(session_state'.final_df, name)
                        <= Count(session_state.final_df, name)]_vars

\* C6: a local batch confirmed while a tracked identifier carries the cloud
\* marker leaves in the Working Table Set exactly the tables of the files
\* accepted from that batch, and tracks nothing loaded earlier.
C6_ModeSwitchStartsOver ==
    [][(LocalStep /\ HasMarker(session_state.processed_files))
       => /\ Len(session_state'.final_df) = Len(run'.new_filenames)
          /\ \A i \in 1..Len(session_state'.final_df) :
                /\ session_state'.final_df[i].src = run'.new_filenames[i]
                /\ \E j \in 1..Len(run'.uploaded_files) :
                      session_state'.final_df[i] = Accepted(run'.uploaded_files[j])
          /\ session_state'.processed_files \in {<<>>, run'.new_filenames}]_vars

C6_Witness ==
    /\ AfterLocal
    /\ Shows(ui, "mode_switched")
    /\ Len(session_state.final_df) = 2
    /\ session_state.processed_files = run.new_filenames

\* C7: after a successful URL import the Working Table Set holds exactly the
\* imported table and the tracked identifiers exactly its identifier, which
\* carries the cloud marker.
C7_UrlImportIsSingleSource ==
    (AfterUrl /\ run.outcome = "done")
    => /\ Len(session_state.final_df) = 1
       /\ session_state.final_df[1].origin = "url"
       /\ session_state.final_df[1].src = virtual_filename(run.uploaded_link)
       /\ session_state.processed_files = <<virtual_filename(run.uploaded_link)>>
       /\ startswith(session_state.processed_files[1], "GSheet_")

\* a URL import succeeded in a session that has a transcript, hence had tables
C7_Witness ==
    /\ AfterUrl
    /\ run.outcome = "done"
    /\ session_state.messages # <<>>

\* C8: a URL with neither the spreadsheet pattern nor the .csv suffix is
\* answered with the invalid-URL error and the session state is untouched.
C8_InvalidUrlTouchesNothing ==
    [][(/\ UrlStep
        /\ ~match_id(run'.uploaded_link)
        /\ ~endswith(run'.uploaded_link, ".csv"))
       => /\ Shows(ui', "invalid_url")
          /\ pc' = "stopped"
          /\ session_state' = session_state]_vars

C8_Witness ==
    /\ pc = "stopped"
    /\ Shows(ui, "invalid_url")
    /\ session_state.final_df # <<>>
    /\ session_state.messages # <<>>
    /\ "agent_executor" \in DOMAIN session_state

\* C9: a URL import that fails after classification leaves the Working Table
\* Set, the tracked identifiers and the Agent Handle as they were, and the run
\* goes on with section 7 or ends.
C9_FailedUrlImportChangesNothing ==
    [][(/\ UrlStep
        /\ match_id(run'.uploaded_link) \/ endswith(run'.uploaded_link, ".csv")
        /\ run'.outcome # "done")
       => /\ session_state'.final_df = session_state.final_df
          /\ session_state'.processed_files = session_state.processed_files
          /\ AgentOf(session_state') = AgentOf(session_state)
          /\ pc' = (IF run'.outcome = "stop" THEN "stopped" ELSE "section7")]_vars

C9_Witness ==
    /\ AfterUrl
    /\ run.export_url # <<>>
    /\ run.outcome = "raise"
    /\ Len(session_state.final_df) = 2
    /\ "agent_executor" \in DOMAIN session_state

C11_CredentialChangeWipesSession ==
    [][(pc = "idle" /\ event' = "google_api_key")
       => /\ session_state'.messages = <<>>
          /\ session_state'.final_df = <<>>
          /\ session_state'.processed_files = <<>>
          /\ session_state'.agent_memory = None
          /\ "agent_executor" \notin DOMAIN session_state'
          /\ session_state'.llm = None
          /\ session_state'.google_api_key \in Keys \ {session_state.google_api_key}]_vars

\* the credential was removed from a session that had one
C11_Witness ==
    /\ pc = "init_state"
    /\ event = "google_api_key"
    /\ session_state.google_api_key = ""
    /\ session_state.final_df = <<>>

\* C12: a language change removes the Agent Handle and leaves the transcript,
\* the Working Table Set, the tracked identifiers, the conversation memory, the
\* Language-Model Handle and the credential as they were.
C12_LanguageChangeDropsOnlyAgent ==
    [][(pc = "idle" /\ event' = "chosen_language")
       => /\ "agent_executor" \notin DOMAIN session_state'
          /\ session_state'.messages = session_state.messages
          /\ session_state'.final_df = session_state.final_df
          /\ session_state'.processed_files = session_state.processed_files
          /\ session_state'.agent_memory = session_state.agent_memory
          /\ session_state'.llm = session_state.llm
          /\ session_state'.google_api_key = session_state.google_api_key]_vars

C12_Witness ==
    /\ pc = "init_state"
    /\ event = "chosen_language"
    /\ session_state.messages # <<>>
    /\ session_state.final_df # <<>>
    /\ session_state.agent_memory = Memory(TRUE)
    /\ "agent_executor" \notin DOMAIN session_state

\* C13: Clear Conversation empties the transcript and keeps the Working Table
\* Set, the tracked identifiers, the Agent Handle, the conversation memory, the
\* Language-Model Handle and the credential.
C13_ClearConversationKeepsTheRest ==
    [][(pc = "idle" /\ event' = "clear_conversation")
       => /\ session_state'.messages = <<>>
          /\ session_state'.final_df = session_state.final_df
          /\ session_state'.processed_files = session_state.processed_files
          /\ AgentOf(session_state') = AgentOf(session_state)
          /\ session_state'.agent_memory = session_state.agent_memory
          /\ session_state'.llm = session_state.llm
          /\ session_state'.google_api_key = session_state.google_api_key]_vars

C13_Witness ==
    /\ pc = "init_state"
    /\ event = "clear_conversation"
    /\ session_state.messages = <<>>
    /\ session_state.final_df # <<>>
    /\ session_state.agent_memory = Memory(TRUE)
    /\ "agent_executor" \in DOMAIN session_state

\* C14: in a local batch, a file with an unsupported extension or with zero
\* rows is skipped with a warning of its own and is not tracked, and every other
\* valid file of the batch is in the Working Table Set and tracked afterwards.
C14_SkippedFileIsSkippedAlone ==
    [][LocalStep =>
          \A i \in 1..Len(run'.uploaded_files) :
              Skipped(read_files(run'.uploaded_files[i]))
              => /\ \E k \in 1..Len(ui') :
                        /\ ui'[k].kind \in {"skipped_unsupported", "skipped_empty"}
                        /\ ui'[k].detail = run'.uploaded_files[i].name
                 /\ run'.uploaded_files[i].name \notin Range(session_state'.processed_files)
                 /\ \A j \in 1..Len(run'.uploaded_files) :
                        Valid(read_files(run'.uploaded_files[j]))
                        => Stored(run'.uploaded_files[j].name)]_vars

\* C15: in a local batch, a file whose parsing fails is skipped on its own: it
\* is not tracked, and every valid file of the batch is in the Working Table Set
\* and tracked afterwards.
C15_CorruptFileIsSkippedAlone ==
    [][LocalStep =>
          \A i \in 1..Len(run'.uploaded_files) :
              read_files(run'.uploaded_files[i]).tag = "raise"
              => /\ run'.uploaded_files[i].name \notin Range(session_state'.processed_files)
                 /\ \A j \in 1..Len(run'.uploaded_files) :
                        Valid(read_files(run'.uploaded_files[j]))
                        => Stored(run'.uploaded_files[j].name)]_vars

\* C16: a source, local file or URL, whose table has a fully-empty row or column
\* and still has rows after cleaning is ingested: the removal is reported, the
\* table stored is the source without exactly its fully-empty rows and columns
\* (and without repeated rows), and its identifier is tracked.
C16_GhostDataIsCleanedAndAccepted ==
    [][/\ LocalStep =>
             \A i \in 1..Len(run'.uploaded_files) :
                 LET uploaded_file == run'.uploaded_files[i]
                 IN Ghosted(read_files(uploaded_file))
                    => /\ \E k \in 1..Len(ui') : ui'[k] = Element("cleaned", uploaded_file.name)
                       /\ Stored(uploaded_file.name)
                       /\ \A k \in 1..Len(session_state'.final_df) :
                              session_state'.final_df[k].src = uploaded_file.name
                              => CleanedFrom(session_state'.final_df[k],
                                             read_files(uploaded_file))
       /\ (UrlStep /\ run'.response # None)
          => LET name == virtual_filename(run'.uploaded_link)
                 df == read_table(name, "url", run'.response)
             IN Ghosted(df)
                => /\ \E k \in 1..Len(ui') : ui'[k] = Element("cleaned", name)
                   /\ run'.outcome = "done"
                   /\ session_state'.processed_files = <<name>>
                   /\ Len(session_state'.final_df) = 1
                   /\ CleanedFrom(session_state'.final_df[1], df)]_vars

C18_SheetPatternHasPriority ==
    (AfterUrl /\ run.export_url # <<>>)
    => IF match_id(run.uploaded_link)
       THEN /\ run.export_url = SheetExport(run.uploaded_link)
            /\ run.outcome = "done"
               => session_state.processed_files = <<SheetIdentifier(run.uploaded_link)>>
       ELSE /\ endswith(run.uploaded_link, ".csv")
            /\ run.export_url = run.uploaded_link

\* C19: the Working Table Set never holds a table imported from a URL together
\* with a table loaded from a local file.
C19_NoLocalCloudMix ==
    Ready => \A i, j \in 1..Len(session_state.final_df) :
                 session_state.final_df[i].origin = session_state.final_df[j].origin

\* local files were loaded into a session that held an imported table
C19_Witness ==
    /\ AfterLocal
    /\ Shows(ui, "mode_switched")
    /\ run.outcome = "done"
    /\ Len(session_state.final_df) = 1
    /\ session_state.final_df[1].origin = "local"
    /\ ~HasMarker(session_state.processed_files)

C21_LocalModeOnlyGrows ==
    [][(/\ LocalStep
        /\ \A i \in 1..Len(session_state.final_df) :
               session_state.final_df[i].origin = "local")
       => Prefix(session_state.final_df, session_state'.final_df)]_vars

C23_MissingCredentialBlocksOnlyTheAgent ==
    [][(Ready /\ session_state.google_api_key = "")
       => /\ session_state.llm = None
          /\ "agent_executor" \notin DOMAIN session_state
          /\ LocalStep
             => LET with == LocalIngestion(WithCredential(session_state),
                                           run'.uploaded_files).session_state
                IN /\ session_state'.final_df = with.final_df
                   /\ session_state'.processed_files = with.processed_files
          /\ (UrlStep /\ run'.response # None)
             => LET with == UrlIngestion(WithCredential(session_state),
                                         run'.uploaded_link, run'.response).session_state
                IN /\ session_state'.final_df = with.final_df
                   /\ session_state'.processed_files = with.processed_files]_vars

\* tables are loaded, the key is missing, no agent was built
C23_Witness ==
    /\ pc = "section9"
    /\ session_state.google_api_key = ""
    /\ Len(session_state.final_df) = 2
    /\ session_state.llm = None
    /\ "agent_executor" \notin DOMAIN session_state

\* C24: a file of a local batch that has no rows left after cleaning ends the
\* batch: neither it nor any file after it is added to the Working Table Set or
\* tracked; a file with zero rows before cleaning does not end the batch, the
\* valid files around it are stored and tracked.
C24_NullFileAbortsTheBatch ==
    [][LocalStep =>
          LET files == run'.uploaded_files
          IN /\ \A i \in 1..Len(files) :
                    NullAfterCleaning(read_files(files[i]))
                    => \A j \in i..Len(files) :
                           (\A k \in 1..(i - 1) : files[k].name # files[j].name)
                           => NotAdded(files[j].name)
             /\ (\A k \in 1..Len(files) :
                     LET df == read_files(files[k])
                     IN Skipped(df) \/ (Valid(df) /\ ~Ghosted(df)))
                => \A k \in 1..Len(files) :
                       Valid(read_files(files[k])) => Stored(files[k].name)]_vars

\* a batch of an all-empty file followed by a valid one was confirmed, and the
\* valid one was not loaded
C24_Witness ==
    /\ AfterLocal
    /\ Len(run.uploaded_files) = 2
    /\ NullAfterCleaning(read_files(run.uploaded_files[1]))
    /\ Valid(read_files(run.uploaded_files[2]))
    /\ ~Ghosted(read_files(run.uploaded_files[2]))
    /\ run.uploaded_files[2].name \notin Range(session_state.processed_files)
    /\ run.outcome = "raise"
    /\ session_state.final_df = <<>>

\* C25: an Agent Handle that is missing when section 8 runs is built there from
\* the current Working Table Set, language and Language-Model Handle, so that a
\* question accepted with tables loaded and a Language-Model Handle present is
\* handed to an agent that exists.
C25_AgentIsRebuiltBeforeTheQuestion ==
    [][/\ (/\ pc = "section8"
           /\ session_state.final_df # <<>>
           /\ session_state.llm # None)
          => /\ "agent_executor" \in DOMAIN session_state'
             /\ "agent_executor" \notin DOMAIN session_state
                => session_state'.agent_executor
                      = Agent(session_state'.llm, session_state'.final_df, chosen_language')
       /\ (/\ pc = "section9"
           /\ event = "chat_input"
           /\ session_state.final_df # <<>>
           /\ session_state.llm # None)
          => /\ invoked' # None
             /\ invoked' = AgentOf(session_state)]_vars

\* a question was handed to an agent built for two tables and the second language
C25_Witness ==
    /\ pc = "done"
    /\ invoked # None
    /\ invoked.language = "Indonesian"
    /\ Len(invoked.df) = 2
    /\ invoked = AgentOf(session_state)

\* C27: a question submitted while the Working Table Set is empty is answered
\* with the no-data warning; the transcript, and the session, are unchanged and
\* no agent is invoked.
C27_QuestionWithoutDataIsRejected ==
    [][(/\ pc = "section9"
        /\ event = "chat_input"
        /\ session_state.final_df = <<>>)
       => /\ Shows(ui', "no_data")
          /\ session_state' = session_state
          /\ invoked' = None]_vars

\* the question was rejected in a session that still holds an agent
C27_Witness ==
    /\ pc = "done"
    /\ event = "chat_input"
    /\ Shows(ui, "no_data")
    /\ session_state.final_df = <<>>
    /\ "agent_executor" \in DOMAIN session_state

\* the question of this step is handed to an agent
Asked ==
    /\ pc = "section9"
    /\ event = "chat_input"
    /\ invoked' # None

\* the entry stored for an answer of the agent
AiMessage(answer) ==
    IF answer.plot
    THEN [role |-> "ai", content |-> answer.output, image |-> "png"]
    ELSE [role |-> "ai", content |-> answer.output]

\* C26: a question that is asked with tables loaded and answered by the agent
\* extends the transcript by exactly two entries, the question and then the
\* answer (with the plot when one was produced); the entries before them are
\* unchanged.
C26_AnswerExtendsTranscriptByTwo ==
    [][(Asked /\ ui' = <<>>)
       => \E prompt_text \in Prompts, answer \in Answers :
             /\ answer.tag = "answer"
             /\ session_state'.messages
                   = session_state.messages
                     \o <<[role |-> "human", content |-> prompt_text], AiMessage(answer)>>]_vars

\* a second exchange, this one with a plot, was added after a first one
C26_Witness ==
    /\ pc = "done"
    /\ invoked # None
    /\ Len(session_state.messages) = 4
    /\ session_state.messages[3].role = "human"
    /\ "image" \in DOMAIN session_state.messages[4]
    /\ "image" \notin DOMAIN session_state.messages[2]

\* C28: when the call of the agent fails, the error is shown and the run goes
\* on to its end; the Working Table Set, the identifiers, the Language-Model
\* Handle and the Agent Handle are unchanged, so that the next question is
\* handed to the same agent.
C28_FailedQuestionLeavesSessionUsable ==
    [][(Asked /\ ui' # <<>>)
       => /\ pc' = "done"
          /\ session_state'.final_df = session_state.final_df
          /\ session_state'.processed_files = session_state.processed_files
          /\ session_state'.llm = session_state.llm
          /\ AgentOf(session_state') = AgentOf(session_state)
          /\ Invoked(session_state') = invoked']_vars

\* a question was answered right after one whose call had failed
C28_Witness ==
    /\ pc = "done"
    /\ invoked # None
    /\ ui = <<>>
    /\ Len(session_state.messages) = 3
    /\ session_state.messages[1].role = "human"
    /\ session_state.messages[2].role = "human"
    /\ session_state.messages[3].role = "ai"

\* the rules of the URL branch's error report, in the order they are listed
UrlErrorRules ==
    << [kind |-> "access_denied", markers |-> {"403", "forbidden"}],
       [kind |-> "sheet_not_found", markers |-> {"404", "not found"}],
       [kind |-> "format_error", markers |-> {"parsererror", "no columns"}],
       [kind |-> "connection_error", markers |-> {"name resolution", "connection"}] >>

Matches(error, rule) == \E marker \in rule.markers : Contains(error, marker)

\* the elements of the page that report a failed import
UrlErrorReports(elements) ==
    SelectSeq(elements,
              LAMBDA el : el.kind = "import_failed"
                          \/ \E i \in 1..Len(UrlErrorRules) : el.kind = UrlErrorRules[i].kind)

\* the read of this run's URL import raised
UrlReadFailed ==
    /\ AfterUrl
    /\ run.response # None
    /\ run.response.tag = "raise"

\* C29: a failed URL import is reported by exactly one error element: that of
\* the first rule, in the order access denied, source not found, format error,
\* network error, one of whose markers occurs in the lower-cased error text,
\* and when no rule matches the generic failure carrying the original text.
C29_UrlFailureIsReportedOnce ==
    UrlReadFailed
    => LET error == run.response.error
           reports == UrlErrorReports(ui)
       IN /\ Len(reports) = 1
          /\ ui[Len(ui)] = reports[1]
          /\ \A i \in 1..Len(UrlErrorRules) :
                (/\ Matches(error, UrlErrorRules[i])
                 /\ \A j \in 1..(i - 1) : ~Matches(error, UrlErrorRules[j]))
                => reports[1] = Element(UrlErrorRules[i].kind, <<>>)
          /\ (\A i \in 1..Len(UrlErrorRules) : ~Matches(error, UrlErrorRules[i]))
                => reports[1] = Element("import_failed", error)
          /\ pc = "section7"

\* an error text that holds markers of the first two rules was reported as
\* access denied
C29_Witness ==
    /\ UrlReadFailed
    /\ run.response.error = <<"404", "Forbidden">>
    /\ Shows(ui, "access_denied")
    /\ ~Shows(ui, "sheet_not_found")

\* the fields session initialisation looks after, and what it stores in a
\* missing one
InitFields == {"messages", "processed_files", "final_df", "llm", "agent_memory"}
InitDefault(field) ==
    IF field \in {"messages", "processed_files", "final_df"} THEN <<>> ELSE None

\* C30: session initialisation adds the missing ones of its five fields with
\* their empty values and leaves every field that exists as it is; on a
\* session that has the five fields it changes nothing, and applying it to its
\* own result changes nothing.
C30_InitStateOnlyAddsMissingFields ==
    [][pc = "init_state"
       => /\ DOMAIN session_state' = DOMAIN session_state \cup InitFields
          /\ \A field \in DOMAIN session_state :
                session_state'[field] = session_state[field]
          /\ \A field \in InitFields \ DOMAIN session_state :
                session_state'[field] = InitDefault(field)
          /\ InitFields \subseteq DOMAIN session_state => session_state' = session_state
          /\ init_state(session_state') = session_state']_vars

\* initialisation has run at the start of a run on a session that holds a
\* transcript, tables, a Language-Model Handle and an agent
C30_Witness ==
    /\ pc = "section6"
    /\ InitFields \subseteq DOMAIN session_state
    /\ Len(session_state.messages) = 2
    /\ session_state.final_df # <<>>
    /\ session_state.llm # None
    /\ session_state.agent_memory # None
    /\ "agent_executor" \in DOMAIN session_state

\* the files of the batch the local branch goes on to process: those whose name
\* is not tracked when the step begins
NewFiles == FilesToProcess(run'.uploaded_files, session_state.processed_files)

\* C31: a confirmed local batch with no mode switch, every new file of which is
\* skipped as unsupported or as having zero rows, leaves the Agent Handle as it
\* was.
C31_AgentKeptWhenNoFileAccepted ==
    [][(/\ LocalStep
        /\ ~HasMarker(session_state.processed_files)
        /\ \A i \in 1..Len(NewFiles) : Skipped(read_files(NewFiles[i])))
       => AgentOf(session_state') = AgentOf(session_state)]_vars

\* C32: the list of tracked identifiers never holds an identifier twice.
C32_NoIdentifierTwice ==
    Ready
    => \A i, j \in 1..Len(session_state.processed_files) :
          i # j => session_state.processed_files[i] # session_state.processed_files[j]

\* C33: the transcript is a sequence of pairs: every entry at an odd position
\* is a question of the user, and it is followed by the answer of the agent.
C33_TranscriptIsPairs ==
    Ready
    => LET messages == session_state.messages
       IN \A i \in 1..Len(messages) :
             IF i % 2 = 1
             THEN /\ messages[i].role = "human"
                  /\ i + 1 <= Len(messages)
             ELSE messages[i].role = "ai"

\* C34: section 6, whichever branch it takes and however the branch ends,
\* leaves the transcript, the conversation memory, the Language-Model Handle
\* and the credential unchanged.
C34_IngestionKeepsConversation ==
    [][(LocalStep \/ UrlStep)
       => /\ session_state'.messages = session_state.messages
          /\ session_state'.agent_memory = session_state.agent_memory
          /\ session_state'.llm = session_state.llm
          /\ session_state'.google_api_key = session_state.google_api_key]_vars

\* a local batch has flushed the cloud table of a session that holds an
\* exchange, its memory and a Language-Model Handle
C34_Witness ==
    /\ AfterLocal
    /\ Shows(ui, "mode_switched")
    /\ Len(session_state.messages) = 2
    /\ session_state.agent_memory = Memory(TRUE)
    /\ session_state.llm # None
    /\ session_state.google_api_key # ""

====
